---- MODULE Spec2Model ----
(***************************************************************************)
(* Model of src/runner.ts: the autograding test runner.                    *)
(*                                                                         *)
(* runAll iterates a list of tests; runTest runs one test through the      *)
(* stages setup -> run -> compare -> feedback -> return, with a single     *)
(* try/catch around the first four.  Strings are modelled as sequences of  *)
(* tokens (characters or message fragments), optional values (undefined /  *)
(* null) as sets with at most one element.                                 *)
(***************************************************************************)
EXTENDS Integers, Sequences, FiniteSets, TLC

(* ---------------------------- bounds ----------------------------------- *)
\* longest list of tests handed to runAll
MaxTests == 2

(* ------------------------ optional values ------------------------------ *)
\* null / undefined
Null == {}
Some(v) == {v}
Get(o) == CHOOSE v \in o : TRUE

\* JavaScript truthiness of an optional number: undefined, null and 0 are falsy
TruthyNum(o) == o # Null /\ Get(o) # 0
\* JavaScript truthiness of an optional string: undefined, null and '' are falsy
TruthyStr(o) == o # Null /\ Get(o) # <<>>
\* `x || ''` on an optional string
OrEmpty(o) == IF TruthyStr(o) THEN Get(o) ELSE <<>>
\* `x || null` on an optional string
OrNullStr(o) == IF TruthyStr(o) THEN o ELSE Null
\* `x || null` on an optional number
OrNullNum(o) == IF TruthyNum(o) THEN o ELSE Null
\* `x || 0` on an optional number
OrZero(o) == IF TruthyNum(o) THEN Get(o) ELSE 0

(* ----------------------------- strings --------------------------------- *)
\* String.prototype.includes: sub occurs as a contiguous run of s
Includes(s, sub) ==
  \E k \in 0..(Len(s) - Len(sub)) :
    \A j \in 1..Len(sub) : s[k + j] = sub[j]

Whitespace == {" ", "\n"}

RECURSIVE TrimStart(_)
TrimStart(s) ==
  IF s # <<>> /\ Head(s) \in Whitespace THEN TrimStart(Tail(s)) ELSE s

RECURSIVE TrimEnd(_)
TrimEnd(s) ==
  IF s # <<>> /\ s[Len(s)] \in Whitespace
  THEN TrimEnd(SubSeq(s, 1, Len(s) - 1))
  ELSE s

\* String.prototype.trim
Trim(s) == TrimEnd(TrimStart(s))

(* --------------------------- the tests --------------------------------- *)
\* test.timeout, in minutes
TimeoutValues == {1}

Test(name, setup, output, comparison, points, timeout) ==
  [name |-> name, setup |-> setup, run |-> <<"run">>, input |-> Null,
   output |-> output, timeout |-> timeout, points |-> points,
   comparison |-> comparison]

\* The tests runAll may be given: with and without a setup command, with
\* points absent, 0 and positive, every comparison method, and a method that
\* is none of the three.
Tests ==
  UNION {
    { Test("exact",    <<>>,    Some(<<"a", "b">>), "exact",    Null,    t),
      Test("included", <<>>,    Some(<<"a">>),      "included", Some(0), t),
      Test("regex",    <<"s">>, Some(<<"a", ".">>), "regex",    Some(2), t),
      Test("bogus",    <<>>,    Null,               "bogus",    Some(1), t) }
    : t \in TimeoutValues }

TestLists == UNION { [1..n -> Tests] : n \in 0..MaxTests }

(* ------------------------- compareOutput ------------------------------- *)
Returns(v) == [threw |-> FALSE, value |-> v, message |-> <<>>]
Throws(m) == [threw |-> TRUE, value |-> FALSE, message |-> m]

\* new RegExp(expected) throws a SyntaxError on an unterminated group; the
\* patterns of the model are made of literal characters, "." and "(".
RegExpValid(pattern) == \A j \in 1..Len(pattern) : pattern[j] # "("

\* regex.test(output): unanchored; "." matches any character but a newline
RegExpTest(pattern, s) ==
  \E k \in 0..(Len(s) - Len(pattern)) :
    \A j \in 1..Len(pattern) :
      \/ pattern[j] = "." /\ s[k + j] # "\n"
      \/ pattern[j] # "." /\ pattern[j] = s[k + j]

\* an unknown method compares as a mismatch
compareOutput_DefaultFalse(output, expected, method) ==
  CASE method = "exact" -> Returns(output = expected)
    [] method = "included" -> Returns(Includes(output, expected))
    [] method = "regex" ->
         IF RegExpValid(expected)
         THEN Returns(RegExpTest(expected, output))
         ELSE Throws(<<"Invalid regular expression: /">> \o expected
                     \o <<"/: Unterminated group">>)
    [] OTHER -> Returns(FALSE)

compareOutput(output, expected, method) ==
  CASE method = "exact" -> Returns(output = expected)
    [] method = "included" -> Returns(Includes(output, expected))
    [] method = "regex" ->
         IF RegExpValid(expected)
         THEN Returns(RegExpTest(expected, output))
         ELSE Throws(<<"Invalid regular expression: /">> \o expected
                     \o <<"/: Unterminated group">>)
    [] OTHER -> Throws(<<"Invalid comparison method: ", method>>)

(* ---------------------------- execSync --------------------------------- *)
\* What a call of child_process.execSync can do: return the command's
\* standard output, or throw an Error.  A timeout throws an Error whose
\* message names ETIMEDOUT; a non-zero exit throws "Command failed: <cmd>"
\* followed by the command's standard error, which is arbitrary text.
TimedOutError == <<"spawnSync /bin/sh ", "ETIMEDOUT">>
FailedErrors ==
  { <<"Command failed: ", "run">>,
    <<"Command failed: ", "run", "\n", "connect ", "ETIMEDOUT">> }
SetupFailedError == <<"Command failed: ", "s">>
\* a negative timeout is rejected before the command is spawned
OutOfRangeError == <<"The value of \"timeout\" is out of range.">>

\* standard output of the run command, before trimming
Stdouts == { <<"a", "b", "\n">>, <<" ", "b", "\n">> }

\* what the run command leaves at $AUTOGRADING_FEEDBACK: nothing, or a file
\* with text
FeedbackWrites == { Null, Some(<<"fb">>) }

\* wall-clock milliseconds a completed run command takes
RunDurations == { 5 }

(* --------------------------- executeTest ------------------------------- *)
\* The outcome of execSync is `ret`: [ok, stdout, isError, message].
TimedOutMessage == <<"Command was killed due to timeout">>

executeTestMessage_Raw(ret) == ret.message

executeTestMessage(ret) ==
  IF Includes(ret.message, <<"ETIMEDOUT">>) THEN TimedOutMessage ELSE ret.message

\* the catch block hands back an empty output next to the error
executeTest_Both(ret) ==
  IF ret.ok
  THEN [threw |-> FALSE, output |-> Some(Trim(ret.stdout)), error |-> Null,
        message |-> <<>>]
  ELSE [threw |-> FALSE, output |-> Some(<<>>), error |-> Some(executeTestMessage(ret)),
        message |-> <<>>]

executeTest(ret) ==
  IF ret.ok
  THEN [threw |-> FALSE, output |-> Some(Trim(ret.stdout)), error |-> Null,
        message |-> <<>>]
  ELSE IF ret.isError
  THEN [threw |-> FALSE, output |-> Null, error |-> Some(executeTestMessage(ret)),
        message |-> <<>>]
  \* line 98 reads `test`, which is not a binding of executeTest
  ELSE [threw |-> TRUE, output |-> Null, error |-> Null,
        message |-> <<"test is not defined">>]

(* ------------------------------ state ---------------------------------- *)
VARIABLES
  tests,            \* runAll's argument
  pc,               \* where the program is
  i,                \* position of the for-of loop in tests (1-based)
  \* runAll's locals
  accumulatedPoints, availablePoints, hasPoints, suiteStatus, testResults,
  \* runTest's locals (suiteStatus above is runAll's `status`)
  timeout, status, err_message, score, feedback, execution_time,
  feedbackPath, output, error,
  setupElapsed,     \* what line 128 measured for the setup command, if it ran
  \* the world outside
  files,            \* the feedback directory: a set of [path, content]
  outputs,          \* core.setOutput calls, in order
  failed,           \* core.setFailed calls, in order
  checkRun,         \* texts handed to setCheckRunOutput, in order
  calls             \* the library calls made, in order (see Call)

runAllVars == <<accumulatedPoints, availablePoints, hasPoints, suiteStatus, testResults>>
runTestVars == <<timeout, status, err_message, score, feedback, execution_time,
                 feedbackPath, output, error, setupElapsed>>
worldVars == <<files, outputs, failed, checkRun, calls>>
vars == <<tests, pc, i, runAllVars, runTestVars, worldVars>>

test == tests[i]

\* An entry of calls: test `n` called `op` ("setup" and "run" are execSync on
\* that command, "compare" is compareOutput, "read" is fs.readFileSync,
\* "unlink" is fs.unlinkSync), how it ended, and the message of what it threw.
Call(n, op, outcome, message) ==
  [test |-> n, op |-> op, outcome |-> outcome, message |-> message]

Init ==
  /\ tests \in TestLists
  /\ pc = "loop"
  /\ i = 1
  /\ accumulatedPoints = 0
  /\ availablePoints = 0
  /\ hasPoints = FALSE
  /\ suiteStatus = "pass"
  /\ testResults = <<>>
  /\ timeout = 0
  /\ status = "pass"
  /\ err_message = Null
  /\ score = Null
  /\ feedback = Null
  /\ execution_time = Null
  /\ feedbackPath = Null
  /\ output = Null
  /\ error = Null
  /\ setupElapsed = Null
  /\ files = {}
  /\ outputs = <<>>
  /\ failed = <<>>
  /\ checkRun = <<>>
  /\ calls = <<>>

(* ------------------------------ runTest -------------------------------- *)
\* line 108
TimeoutMs(t) == t.timeout * 60 * 1000

\* line 111
InitialScore(t) == OrNullNum(t.points)

\* lines 145 and 149
ZeroScore(t) == IF TruthyNum(t.points) THEN Some(0) ELSE Null

\* the catch block, lines 159-168: e is [isError, message]
CatchMessage(t, e) ==
  IF e.isError
  THEN e.message
  ELSE <<"Failed to execute run test: ", t.name, ": ">> \o e.message

\* the throw leaves runTest
Catch_Propagates(e) ==
  /\ status' = "error"
  /\ err_message' = Some(CatchMessage(test, e))
  /\ pc' = "thrown"

\* an earlier failure is kept
Catch_KeepFirst(e) ==
  /\ status' = IF status = "pass" THEN "error" ELSE status
  /\ err_message' = IF status = "pass" THEN Some(CatchMessage(test, e)) ELSE err_message
  /\ pc' = "return"

\* the exception is swallowed
Catch_Swallow(e) ==
  /\ UNCHANGED <<status, err_message>>
  /\ pc' = "return"

Catch(e) ==
  /\ status' = "error"
  /\ err_message' = Some(CatchMessage(test, e))
  /\ pc' = "return"

AnError(m) == [isError |-> TRUE, message |-> m]

\* lines 196-199
AvailableAfter_Assign(avail, t) ==
  IF TruthyNum(t.points) THEN Get(t.points) ELSE avail
AvailableAfter(avail, t) ==
  IF TruthyNum(t.points) THEN avail + Get(t.points) ELSE avail

\* lines 195-203 and 108-117: the loop takes the next test and runTest starts
BeginTest ==
  /\ pc = "loop"
  /\ i <= Len(tests)
  /\ hasPoints' = (hasPoints \/ TruthyNum(test.points))
  /\ availablePoints' = AvailableAfter(availablePoints, test)
  /\ timeout' = TimeoutMs(test)
  /\ status' = "pass"
  /\ err_message' = Null
  /\ score' = InitialScore(test)
  /\ feedback' = Null
  /\ execution_time' = Null
  /\ pc' = IF test.setup # <<>> THEN "setup" ELSE "run"
  /\ UNCHANGED <<tests, i, accumulatedPoints, suiteStatus, testResults,
                 feedbackPath, output, error, setupElapsed, worldVars>>

\* elapsed milliseconds of a setup command that completed under `budget`; the
\* measured time includes spawning the shell, so it can pass the budget
SetupDurations(budget) == {0, budget, budget + 1}

\* the remaining budget is floored at zero
SetupOk_Floored ==
  /\ pc = "setup"
  /\ \E d \in SetupDurations(timeout) :
       /\ timeout' = IF timeout - d < 0 THEN 0 ELSE timeout - d
       /\ setupElapsed' = Some(d)
  /\ calls' = Append(calls, Call(i, "setup", "ok", <<>>))
  /\ pc' = "run"
  /\ UNCHANGED <<tests, i, runAllVars, status, err_message, score, feedback,
                 execution_time, feedbackPath, output, error,
                 files, outputs, failed, checkRun>>

\* lines 118-128: the setup command completes
SetupOk ==
  /\ pc = "setup"
  /\ \E d \in SetupDurations(timeout) :
       /\ timeout' = timeout - d
       /\ setupElapsed' = Some(d)
  /\ calls' = Append(calls, Call(i, "setup", "ok", <<>>))
  /\ pc' = "run"
  /\ UNCHANGED <<tests, i, runAllVars, status, err_message, score, feedback,
                 execution_time, feedbackPath, output, error,
                 files, outputs, failed, checkRun>>

\* the failure of the setup command is recorded and the test goes on
SetupThrows_GoesOn ==
  /\ pc = "setup"
  /\ \E o \in {[outcome |-> "failed", message |-> SetupFailedError]} \cup
              (IF timeout > 0
               THEN {[outcome |-> "killed", message |-> TimedOutError]} ELSE {}) :
       /\ status' = "error"
       /\ err_message' = Some(o.message)
       /\ pc' = "run"
       /\ calls' = Append(calls, Call(i, "setup", o.outcome, o.message))
  /\ UNCHANGED <<tests, i, runAllVars, timeout, score, feedback,
                 execution_time, feedbackPath, output, error, setupElapsed,
                 files, outputs, failed, checkRun>>

\* lines 121-126 and 159-168: the setup command exits non-zero or times out
SetupThrows ==
  /\ pc = "setup"
  /\ \E o \in {[outcome |-> "failed", message |-> SetupFailedError]} \cup
              (IF timeout > 0
               THEN {[outcome |-> "killed", message |-> TimedOutError]} ELSE {}) :
       /\ Catch(AnError(o.message))
       /\ calls' = Append(calls, Call(i, "setup", o.outcome, o.message))
  /\ UNCHANGED <<tests, i, runAllVars, timeout, score, feedback,
                 execution_time, feedbackPath, output, error, setupElapsed,
                 files, outputs, failed, checkRun>>

\* line 132: uuidv4() is fresh for every test
FeedbackPathOf(n) == <<"grading_feedback_", ToString(n), ".md">>

\* line 140
FormatSeconds(ms) == [type |-> "string", ms |-> ms]

\* What execSync(test.run, {timeout: budget, ...}) can do: [ret, outcome, d],
\* what it returns or throws, how the command ended ("rejected": it was never
\* spawned), and the elapsed milliseconds.
RunOutcomes(budget) ==
  IF budget < 0
  THEN { [ret |-> [ok |-> FALSE, stdout |-> <<>>, isError |-> TRUE,
                   message |-> OutOfRangeError], outcome |-> "rejected", d |-> 0] }
  ELSE { [ret |-> [ok |-> TRUE, stdout |-> o, isError |-> TRUE, message |-> <<>>],
          outcome |-> "ok", d |-> d] : o \in Stdouts, d \in RunDurations }
       \cup
       { [ret |-> [ok |-> FALSE, stdout |-> <<>>, isError |-> TRUE, message |-> m],
          outcome |-> "failed", d |-> d] : m \in FailedErrors, d \in RunDurations }
       \cup
       \* a budget of 0 sets no timer
       (IF budget > 0
        THEN { [ret |-> [ok |-> FALSE, stdout |-> <<>>, isError |-> TRUE,
                         message |-> TimedOutError], outcome |-> "killed", d |-> budget] }
        ELSE {})

\* lines 131-140: allocate the feedback path and run the test command
Run ==
  /\ pc = "run"
  /\ \E o \in RunOutcomes(timeout), w \in FeedbackWrites :
       LET path == FeedbackPathOf(i)
           r == executeTest(o.ret)
       IN /\ feedbackPath' = Some(path)
          /\ files' = IF o.outcome # "rejected" /\ w # Null
                      THEN files \cup {[path |-> path, content |-> Get(w)]}
                      ELSE files
          /\ calls' = Append(calls, Call(i, "run", o.outcome, o.ret.message))
          /\ IF r.threw
             THEN /\ Catch(AnError(r.message))
                  /\ UNCHANGED <<output, error, execution_time>>
             ELSE /\ output' = r.output
                  /\ error' = r.error
                  /\ execution_time' = Some(FormatSeconds(o.d))
                  /\ pc' = "compare"
                  /\ UNCHANGED <<status, err_message>>
  /\ UNCHANGED <<tests, i, runAllVars, timeout, score, feedback, setupElapsed,
                 outputs, failed, checkRun>>

MismatchMessage(out) == <<"Output does not match expected. Got: ">> \o OrEmpty(out)

\* the error that executeTest returned is ignored
RunFailed_Never(err) == FALSE

\* line 142: `if (error)`
RunFailed(err) == TruthyStr(err)

\* lines 142-150
Compare ==
  /\ pc = "compare"
  /\ IF RunFailed(error)
     THEN /\ status' = "error"
          /\ err_message' = error
          /\ score' = ZeroScore(test)
          /\ pc' = "feedback"
          /\ UNCHANGED calls
     ELSE LET c == compareOutput(OrEmpty(output), OrEmpty(test.output), test.comparison)
          IN /\ calls' = Append(calls,
                            Call(i, "compare",
                                 IF c.threw THEN "throws"
                                 ELSE IF c.value THEN "true" ELSE "false",
                                 c.message))
             /\ IF c.threw
                THEN /\ Catch(AnError(c.message))
                     /\ UNCHANGED score
                ELSE IF ~c.value
                THEN /\ status' = "fail"
                     /\ err_message' = Some(MismatchMessage(output))
                     /\ score' = ZeroScore(test)
                     /\ pc' = "feedback"
                ELSE /\ pc' = "feedback"
                     /\ UNCHANGED <<status, err_message, score>>
  /\ UNCHANGED <<tests, i, runAllVars, timeout, feedback, execution_time,
                 feedbackPath, output, error, setupElapsed,
                 files, outputs, failed, checkRun>>

FileAt(path) == {f \in files : f.path = path}

NoSuchFile(path) ==
  <<"ENOENT: no such file or directory, open '">> \o path \o <<"'">>

\* lines 152-158: read the feedback file, then delete it
CollectFeedback ==
  /\ pc = "feedback"
  /\ LET path == Get(feedbackPath)
     IN IF FileAt(path) = {}
        THEN /\ Catch(AnError(NoSuchFile(path)))
             /\ calls' = Append(calls, Call(i, "read", "throws", NoSuchFile(path)))
             /\ UNCHANGED <<feedback, files>>
        ELSE /\ feedback' = Some(Get(FileAt(path)).content)
             /\ files' = files \ FileAt(path)
             /\ calls' = Append(Append(calls, Call(i, "read", "ok", <<>>)),
                                Call(i, "unlink", "ok", <<>>))
             /\ pc' = "return"
             /\ UNCHANGED <<status, err_message>>
  /\ UNCHANGED <<tests, i, runAllVars, timeout, score, execution_time,
                 feedbackPath, output, error, setupElapsed,
                 outputs, failed, checkRun>>

\* lines 171-181
TestResult(t) ==
  [name |-> t.name,
   status |-> status,
   err_message |-> err_message,
   content |-> OrNullStr(feedback),
   test_code |-> t.run \o <<" <stdin>">> \o OrEmpty(t.input),
   filename |-> <<>>,
   line_no |-> 0,
   execution_time |-> IF execution_time # Null THEN Get(execution_time)
                      ELSE [type |-> "number", ms |-> 0],
   score |-> score]

(* ------------------------------- runAll -------------------------------- *)
\* line 206
PushResult_Front(results, result) == <<result>> \o results
PushResult(results, result) == Append(results, result)

\* lines 208-210
Accumulate(acc, t, result) ==
  IF TruthyNum(t.points) THEN acc + OrZero(result.score) ELSE acc

\* lines 212-218
NextSuiteStatus_Last(s, result) == IF result.status = "pass" THEN "pass" ELSE "error"
NextSuiteStatus(s, result) == IF result.status = "pass" THEN s ELSE "error"

FailedMessage(t) == <<"Failed to run test '", t.name, "'">>

\* only the first failing test of the suite is signalled
setFailed_Once(f, t, result) ==
  IF result.status = "pass" \/ f # <<>> THEN f ELSE Append(f, FailedMessage(t))

\* lines 212-218: core.setFailed for a result that did not pass
setFailed(f, t, result) ==
  IF result.status = "pass" THEN f ELSE Append(f, FailedMessage(t))

\* lines 171-181 and 206-220: runTest returns and the loop body ends
Return ==
  /\ pc = "return"
  /\ LET result == TestResult(test)
     IN /\ testResults' = PushResult(testResults, result)
        /\ accumulatedPoints' = Accumulate(accumulatedPoints, test, result)
        /\ suiteStatus' = NextSuiteStatus(suiteStatus, result)
        /\ failed' = setFailed(failed, test, result)
  /\ i' = i + 1
  /\ pc' = "loop"
  \* runTest's locals are gone
  /\ timeout' = 0
  /\ status' = "pass"
  /\ err_message' = Null
  /\ score' = Null
  /\ feedback' = Null
  /\ execution_time' = Null
  /\ feedbackPath' = Null
  /\ output' = Null
  /\ error' = Null
  /\ setupElapsed' = Null
  /\ UNCHANGED <<tests, availablePoints, hasPoints, files, outputs, checkRun, calls>>

\* line 236
PointsText == <<"Points ", ToString(accumulatedPoints), "/", ToString(availablePoints)>>

\* lines 223-238: the loop is over
EndLoop ==
  /\ pc = "loop"
  /\ i > Len(tests)
  /\ IF hasPoints
     THEN /\ outputs' = Append(outputs,
                          [name |-> "Points",
                           value |-> <<ToString(accumulatedPoints), "/",
                                       ToString(availablePoints)>>])
          /\ pc' = "checkrun"
     ELSE /\ pc' = "result"
          /\ UNCHANGED outputs
  /\ UNCHANGED <<tests, i, runAllVars, runTestVars, files, failed, checkRun, calls>>

\* line 239: await setCheckRunOutput(text)
setCheckRunOutput ==
  /\ pc = "checkrun"
  /\ checkRun' = Append(checkRun, PointsText)
  /\ pc' = "result"
  /\ UNCHANGED <<tests, i, runAllVars, runTestVars, files, outputs, failed, calls>>

\* lines 243-248
Results ==
  [version |-> 0, status |-> suiteStatus, max_score |-> availablePoints,
   tests |-> testResults]

\* line 249: the report is serialised and then encoded
JSONstringify(v) == [json |-> v]
btoa(str) == [base64 |-> str]

\* lines 242-249
EmitResult ==
  /\ pc = "result"
  /\ outputs' = Append(outputs,
                  [name |-> "result", value |-> btoa(JSONstringify(Results))])
  /\ pc' = "done"
  /\ UNCHANGED <<tests, i, runAllVars, runTestVars, files, failed, checkRun, calls>>

Next ==
  \/ BeginTest
  \/ SetupOk
  \/ SetupThrows
  \/ Run
  \/ Compare
  \/ CollectFeedback
  \/ Return
  \/ EndLoop
  \/ setCheckRunOutput
  \/ EmitResult

Spec == Init /\ [][Next]_vars

\* runAll is one synchronous call: every step it can take, it takes
FairSpec == Spec /\ WF_vars(Next)

(* ======================== properties =================================== *)
\* the tests whose TestResult runAll holds
Finished == 1..Len(testResults)

\* test k made the call `op` and it ended `outcome`
Called(k, op, outcome) ==
  \E c \in 1..Len(calls) :
    calls[c].test = k /\ calls[c].op = op /\ calls[c].outcome = outcome

\* the SuiteReports emitted as the 'result' output
Reports ==
  { outputs[n].value.base64.json :
      n \in {m \in 1..Len(outputs) : outputs[m].name = "result"} }

RECURSIVE SumDeclared(_)
\* the sum of points over the tests of a list that declare points
SumDeclared(ts) ==
  IF ts = <<>> THEN 0
  ELSE (IF Head(ts).points = Null THEN 0 ELSE Get(Head(ts).points))
       + SumDeclared(Tail(ts))

(* C1: score follows status.  For every test with points = P, a result of
   status pass has score P and a result of status fail or error has score 0;
   for a test without points the score is null.  The code leaves score at P
   when the catch block sets status error, and treats points = 0 as absent. *)
C1_ScoreFollowsStatus ==
  \A k \in Finished :
    LET t == tests[k]
        r == testResults[k]
    IN IF t.points = Null
       THEN r.score = Null
       ELSE /\ r.status = "pass" => r.score = t.points
            /\ r.status \in {"fail", "error"} => r.score = Some(0)

(* C2: the suite status is pass iff every result so far is pass, and error
   otherwise (never fail); the emitted report carries that status over all
   the tests; once error, the suite status stays error. *)
C2_SuiteStatusReduction ==
  /\ [](/\ suiteStatus \in {"pass", "error"}
        /\ suiteStatus = "pass" <=> \A k \in Finished : testResults[k].status = "pass"
        /\ \A r \in Reports :
             /\ Len(r.tests) = Len(tests)
             /\ r.status \in {"pass", "error"}
             /\ r.status = "pass" <=>
                  \A k \in 1..Len(r.tests) : r.tests[k].status = "pass")
  /\ [][suiteStatus = "error" => suiteStatus' = "error"]_vars

\* a report was emitted for a suite whose first test failed its comparison and
\* whose second test passed
C2_Witness ==
  /\ pc = "done"
  /\ Len(testResults) = 2
  /\ testResults[1].status = "fail"
  /\ testResults[2].status = "pass"
  /\ \E r \in Reports : r.status = "error"

(* C3: the report holds exactly one result per test, in input order (result
   k carries the name of test k), and a result once appended is never
   changed or removed. *)
C3_OneResultPerTestInOrder ==
  /\ [](/\ Len(testResults) <= Len(tests)
        /\ \A k \in Finished : testResults[k].name = tests[k].name
        /\ \A r \in Reports :
             /\ Len(r.tests) = Len(tests)
             /\ \A k \in 1..Len(r.tests) : r.tests[k].name = tests[k].name)
  /\ [][/\ Len(testResults') >= Len(testResults)
        /\ \A k \in Finished : testResults'[k] = testResults[k]]_vars

\* a report over two tests of different names, the first errored
C3_Witness ==
  /\ pc = "done"
  /\ Len(tests) = 2
  /\ tests[1].name # tests[2].name
  /\ \E r \in Reports :
       /\ r.tests[1].status = "error"
       /\ r.tests[2].status = "pass"

(* C4: a failure of any stage of any test stays inside that test: runAll
   goes on to the remaining tests and in the end emits the 'result' output
   with one result per test, also when every test fails. *)
C4_AlwaysReports ==
  <>(/\ pc = "done"
     /\ \E r \in Reports : Len(r.tests) = Len(tests))

\* a report over two tests, the first stopped by its setup command, the
\* second by the missing feedback file
C4_Witness ==
  /\ pc = "done"
  /\ Len(tests) = 2
  /\ Called(1, "setup", "failed")
  /\ Called(2, "read", "throws")
  /\ \E r \in Reports :
       /\ Len(r.tests) = 2
       /\ \A k \in 1..2 : r.tests[k].status = "error"

\* the tests runTest was called for
Started == IF pc \in {"loop", "checkrun", "result", "done"} THEN i - 1 ELSE i

RECURSIVE SumScores(_)
\* the sum of `score || 0` over the finished tests 1..k with truthy points
SumScores(k) ==
  IF k = 0 THEN 0
  ELSE SumScores(k - 1)
       + (IF TruthyNum(tests[k].points) THEN OrZero(testResults[k].score) ELSE 0)

(* C5: max_score is the sum of points over the tests that declare points,
   whatever the outcome of each test; a test without points adds nothing
   to the available nor to the accumulated total. *)
C5_MaxScoreIsSumOfPoints ==
  /\ availablePoints = SumDeclared(SubSeq(tests, 1, Started))
  /\ accumulatedPoints = SumScores(Len(testResults))
  /\ \A r \in Reports : r.max_score = SumDeclared(tests)

\* a report over a test without points and a failed test with points
C5_Witness ==
  /\ pc = "done"
  /\ Len(tests) = 2
  /\ tests[1].points = Null
  /\ tests[2].points = Some(2)
  /\ testResults[1].status = "pass"
  /\ testResults[2].status = "fail"
  /\ \E r \in Reports : r.max_score = 2

(* C6: the score of a result is non-null iff its test declares points, for
   every declared value, 0 included.  The code reads a declared 0 as absent. *)
C6_ScoreIffPointsDeclared ==
  \A k \in Finished : testResults[k].score # Null <=> tests[k].points # Null

(* C7: when the run phase was reached and reading the feedback file fails,
   the result has status error and the read failure's message, whatever the
   comparison had set. *)
C7_ReadFailureOverwrites ==
  \A k \in Finished :
    Called(k, "read", "throws") =>
      /\ testResults[k].status = "error"
      /\ testResults[k].err_message = Some(NoSuchFile(FeedbackPathOf(k)))

\* a mismatch (status fail) whose feedback file was missing, and a run error
\* whose feedback file was missing
C7_Witness ==
  /\ Len(testResults) = 2
  /\ Called(1, "compare", "false")
  /\ Called(1, "read", "throws")
  /\ Called(2, "run", "failed")
  /\ Called(2, "read", "throws")
  /\ \A k \in 1..2 : testResults[k].status = "error"

\* the run command of test k returned output and the comparator returned false
Mismatch(k) == Called(k, "run", "ok") /\ Called(k, "compare", "false")

(* C8 as claimed: a mismatch gives status fail (never error), and only a
   mismatch gives status fail. *)
C8_MismatchIsFail ==
  \A k \in Finished :
    /\ Mismatch(k) => testResults[k].status = "fail"
    /\ testResults[k].status = "fail" => Mismatch(k)

(* C8 amended: a mismatch gives status fail when the feedback file is then
   read, and status error with the read failure's message when that read
   fails; only a mismatch gives status fail. *)
C8_MismatchIsFailUnlessReadFails ==
  \A k \in Finished :
    /\ Mismatch(k) /\ Called(k, "read", "ok") => testResults[k].status = "fail"
    /\ Mismatch(k) /\ Called(k, "read", "throws") =>
         /\ testResults[k].status = "error"
         /\ testResults[k].err_message = Some(NoSuchFile(FeedbackPathOf(k)))
    /\ Mismatch(k) => Called(k, "read", "ok") \/ Called(k, "read", "throws")
    /\ testResults[k].status = "fail" => Mismatch(k)

\* one mismatch that kept status fail, one that the read failure turned to error
C8_Witness ==
  /\ Len(testResults) = 2
  /\ Mismatch(1) /\ testResults[1].status = "fail"
  /\ Mismatch(2) /\ testResults[2].status = "error"

\* the raw messages of the non-zero exits of test k's run command
FailedMessages(k) ==
  { calls[c].message :
      c \in {d \in 1..Len(calls) : /\ calls[d].test = k
                                   /\ calls[d].op = "run"
                                   /\ calls[d].outcome = "failed"} }

RunExecuted(k) ==
  Called(k, "run", "ok") \/ Called(k, "run", "failed") \/ Called(k, "run", "killed")

(* C10: after the run command of a test was executed the feedback file is
   read and, if it exists, deleted before the result is returned, whatever
   the comparison did.  The code skips both when the comparator throws. *)
C10_FeedbackCollected ==
  \A k \in Finished :
    RunExecuted(k) =>
      /\ Called(k, "read", "ok") \/ Called(k, "read", "throws")
      /\ FileAt(FeedbackPathOf(k)) = {}

\* test k made the call `op`, however it ended
CalledOp(k, op) ==
  \E c \in 1..Len(calls) : calls[c].test = k /\ calls[c].op = op

\* the messages thrown by the failed or killed setup command of test k
SetupThrown(k) ==
  { calls[c].message :
      c \in {d \in 1..Len(calls) : /\ calls[d].test = k
                                   /\ calls[d].op = "setup"
                                   /\ calls[d].outcome \in {"failed", "killed"}} }

(* C11: when the setup command of a test fails (non-zero exit or timeout),
   the run command is never executed, the comparator is never invoked, no
   feedback path is allocated and no feedback file is read or deleted; the
   result has status error, the thrown message as err_message, content null
   and execution_time 0. *)
C11_SetupFailureAborts ==
  \A k \in 1..Started :
    SetupThrown(k) # {} =>
      /\ \A op \in {"run", "compare", "read", "unlink"} : ~CalledOp(k, op)
      /\ k = i => feedbackPath = Null /\ pc = "return"
      /\ k \in Finished =>
           /\ testResults[k].status = "error"
           /\ testResults[k].err_message \in {Some(m) : m \in SetupThrown(k)}
           /\ testResults[k].content = Null
           /\ testResults[k].execution_time = [type |-> "number", ms |-> 0]

\* a test stopped by its setup command timing out, then a test that ran
C11_Witness ==
  /\ Len(testResults) = 2
  /\ Called(1, "setup", "killed")
  /\ testResults[1].err_message = Some(TimedOutError)
  /\ Called(2, "run", "ok")

RECURSIVE ExpectedFailed(_)
\* the failure signals owed for the first k results, in order
ExpectedFailed(k) ==
  IF k = 0 THEN <<>>
  ELSE IF testResults[k].status = "pass" THEN ExpectedFailed(k - 1)
       ELSE Append(ExpectedFailed(k - 1), FailedMessage(tests[k]))

(* C12: core.setFailed is called exactly once, with a message carrying the
   test's name, for every result whose status is not pass, and never for a
   result whose status is pass. *)
C12_OneSetFailedPerNonPass ==
  failed = ExpectedFailed(Len(testResults))

\* a suite with a failed test, an errored test, both signalled
C12_Witness ==
  /\ pc = "done"
  /\ Len(testResults) = 2
  /\ testResults[1].status = "fail"
  /\ testResults[2].status = "error"
  /\ Len(failed) = 2

\* the 'Points' outputs emitted so far
PointsOutputs == { k \in 1..Len(outputs) : outputs[k].name = "Points" }

(* C13: after the loop, the 'Points' output and the check-run text summary
   are emitted if some test of the input declared points, and neither is
   emitted if no test declared points. *)
C13_PointsEmittedIffDeclared ==
  pc = "done" =>
    LET declared == \E k \in 1..Len(tests) : tests[k].points # Null
    IN /\ declared <=> PointsOutputs # {}
       /\ declared <=> checkRun # <<>>

\* what the setup command of the current test took; nothing without setup
Elapsed == IF setupElapsed = Null THEN 0 ELSE Get(setupElapsed)

(* C14: the timeout passed to the run command is the declared timeout, in
   milliseconds, minus the elapsed time of the setup command, and the full
   declared timeout when the test has no setup; it is never larger than the
   declared budget, and it is not floored: after a slow setup it can be zero
   or negative. *)
C14_RunTimeoutIsRemainder ==
  pc = "run" =>
    /\ timeout = TimeoutMs(test) - Elapsed
    /\ test.setup = <<>> => timeout = TimeoutMs(test)
    /\ test.setup # <<>> => setupElapsed # Null
    /\ timeout <= TimeoutMs(test)

\* the run command is about to get a negative timeout
C14_Witness ==
  /\ pc = "run"
  /\ setupElapsed = Some(TimeoutMs(test) + 1)
  /\ timeout = 0 - 1

(* C15: when the run command returns an error, the comparator is not invoked,
   the status is error and err_message is that error, unless the collection of
   the feedback file fails afterwards; the expected output and the comparison
   mode have no influence on the result. *)
C15_RunErrorSkipsComparison ==
  (pc \in {"feedback", "return"} /\ error # Null) =>
    /\ ~CalledOp(i, "compare")
    /\ status = "error"
    /\ err_message = IF Called(i, "read", "throws")
                     THEN Some(NoSuchFile(Get(feedbackPath)))
                     ELSE error
    /\ score = ZeroScore(test)

\* a failed run whose feedback file was read, under an unknown comparison mode
C15_Witness ==
  /\ pc = "return"
  /\ error # Null
  /\ test.comparison = "bogus"
  /\ Called(i, "run", "failed")
  /\ Called(i, "read", "ok")

\* test k names a comparison mode that compareOutput does not know
UnknownMode(k) == tests[k].comparison \notin {"exact", "included", "regex"}

(* C16: a test whose comparison mode is none of exact, included or regex and
   whose run command succeeds gets a result with status error and the
   invalid-comparison-method message as err_message; the failure stays inside
   that test: the suite goes on and reports every test. *)
C16_UnknownModeIsContainedError ==
  /\ \A k \in 1..Started :
       (UnknownMode(k) /\ Called(k, "run", "ok")) =>
         /\ k = i => pc \in {"compare", "return"}
         /\ (k = i /\ pc = "return") =>
              /\ status = "error"
              /\ err_message = Some(<<"Invalid comparison method: ", tests[k].comparison>>)
         /\ k \in Finished =>
              /\ testResults[k].status = "error"
              /\ testResults[k].err_message =
                   Some(<<"Invalid comparison method: ", tests[k].comparison>>)
  /\ pc = "done" => Len(testResults) = Len(tests)

\* the suite finished with a passing test after one with an unknown mode
C16_Witness ==
  /\ pc = "done"
  /\ Len(testResults) = 2
  /\ UnknownMode(1)
  /\ Called(1, "compare", "throws")
  /\ testResults[1].status = "error"
  /\ testResults[2].status = "pass"

(* C17: executeTest never throws: every call of it returns, and what it
   returns holds exactly one of output and error; runTest takes the outcome
   for a failure of the run command exactly when error is set. *)
C17_ExecuteTestReturnsOneOf ==
  /\ [][pc = "run" => pc' = "compare"]_vars
  /\ [](pc = "compare" => (output = Null) # (error = Null))
  /\ [][pc = "compare" =>
          ((error # Null) <=> /\ status' = "error"
                              /\ err_message' = error
                              /\ calls' = calls)]_vars

\* executeTest has returned the error of a killed command, and no output
C17_Witness ==
  /\ pc = "compare"
  /\ Called(i, "run", "killed")
  /\ error = Some(TimedOutMessage)
  /\ output = Null

RECURSIVE SumPassed(_)
\* the sum of the declared points over the tests 1..k whose result is pass
SumPassed(k) ==
  IF k = 0 THEN 0
  ELSE SumPassed(k - 1) +
       (IF tests[k].points # Null /\ testResults[k].status = "pass"
        THEN Get(tests[k].points) ELSE 0)

(* C18: the points earned that runAll reports are the sum of the points of
   exactly those point-declaring tests whose final status is pass: a test
   ending in fail or error adds nothing, and the points earned never exceed
   max_score. *)
C18_EarnedIsSumOfPassed ==
  /\ accumulatedPoints = SumPassed(Len(testResults))
  /\ accumulatedPoints <= availablePoints
  /\ \A k \in PointsOutputs :
       outputs[k].value = <<ToString(SumPassed(Len(testResults))), "/",
                            ToString(availablePoints)>>

(* C19: in every result that runTest returns, status is pass if and only if
   err_message is null; a result is pass only when the setup command, if the
   test has one, succeeded, the run command returned output, the comparator
   returned true on it, and the feedback file was read. *)
C19_PassIffNoMessage ==
  \A k \in Finished :
    /\ testResults[k].status = "pass" <=> testResults[k].err_message = Null
    /\ testResults[k].status = "pass" =>
         /\ tests[k].setup # <<>> => Called(k, "setup", "ok")
         /\ ~CalledOp(k, "setup") \/ tests[k].setup # <<>>
         /\ Called(k, "run", "ok")
         /\ Called(k, "compare", "true")
         /\ Called(k, "read", "ok")

\* a test with a setup command passed
C19_Witness ==
  /\ Len(testResults) = 1
  /\ tests[1].setup # <<>>
  /\ testResults[1].status = "pass"
  /\ testResults[1].err_message = Null
  /\ testResults[1].content # Null

====
